---- MODULE Spec2Model ----
(***************************************************************************)
(* A model of zookeeper::LeaderDetector (src/src/zookeeper/detector.cpp):  *)
(* the LeaderDetectorProcess actor (leader, promises), its mailbox, the    *)
(* Group watch it re-arms, and the facade's detect / teardown.             *)
(*                                                                         *)
(* Two specifications share the state:                                     *)
(*   Spec      every handler of the actor is one step (run to completion); *)
(*   SpecFine  watched() is split at its statements and runs either on the *)
(*             actor (deferred) or on the Group's thread, so that the      *)
(*             serialisation of handlers is verified, not assumed.         *)
(***************************************************************************)
EXTENDS Integers, FiniteSets, Sequences, TLC

\* ------------------------------------------------------------- bounds

\* Membership ids are 0..MaxId.
MaxId == 1

\* Number of facade detect() calls made over a run.
MaxReq == 2

\* Number of Group watches issued over a run.
MaxWatch == 3

\* --------------------------------------------------------- value types

Ids == 0 .. MaxId

\* Option<Group::Membership>::none(); a Membership is modelled by its id.
None == -1

OptionIds == Ids \cup {None}

Reqs == 1 .. MaxReq

\* Failure messages a Group watch can fail with.
Reasons == {"session expired", "timeout"}

VARIABLES
    proc,       \* lifecycle of the actor: spawned, running, terminated, deleted
    leader,     \* LeaderDetectorProcess::leader
    promises,   \* LeaderDetectorProcess::promises (the requests it owns)
    req,        \* per detect() call: the result handle the caller holds
    mailbox,    \* the actor's event queue
    watches,    \* every Group watch issued so far, in order
    invoked,    \* per watch: how many times watched() ran for it
    run,        \* the watched() invocation in progress (SpecFine)
    last,       \* the handler of the actor or teardown step that ran last (history)
    group       \* the Group: its live membership set and how often it changed (SpecLive)

vars == <<proc, leader, promises, req, mailbox, watches, invoked, run, last, group>>

Event(k, i) == [kind |-> k, id |-> i]

NoRequest == [st |-> "unused", prev |-> None, val |-> None, why |-> "", imm |-> FALSE]

NoRun == [pc |-> "idle", ctx |-> "none", w |-> 0, current |-> None]

Step(o, i) == [op |-> o, id |-> i]

\* ------------------------------------------------- library semantics

\* Option<T> min(const Option<T>&, const T&) of stout: none() loses against
\* any value.
MinOption(left, right) ==
    IF left = None THEN right
    ELSE IF left < right THEN left ELSE right

\* Promise<T>::set on a pending future.
PromiseSet(q, v) ==
    IF q.st = "pending" THEN [q EXCEPT !.st = "ready", !.val = v] ELSE q

\* Promise<T>::fail on a pending future.
PromiseFail(q, why) ==
    IF q.st = "pending" THEN [q EXCEPT !.st = "failed", !.why = why] ELSE q

\* Future<T>::discard on a pending future.
FutureDiscard(q) ==
    IF q.st = "pending" THEN [q EXCEPT !.st = "discarded"] ELSE q

\* A DispatchEvent deleted with the mailbox of a terminated process: its
\* promise is destroyed unset and the caller's future never completes.
DropDispatch(q) ==
    IF q.st = "dispatched" THEN [q EXCEPT !.st = "dropped"] ELSE q

\* --------------------------------------------------------- the actor

\* The actor is inside a handler it has not finished.
ActorBusy == run.pc # "idle" /\ run.ctx = "actor"

\* onAny(lambda::bind(&Self::watched, this, lambda::_1)): the handler runs on
\* the thread that settles the watch.
Undeferred == FALSE

\* The handler of a Group watch's completion runs on the actor (defer).
Deferred == TRUE

\* std::set iterates in ascending order of Membership::operator<.
RECURSIVE Ascending(_)
Ascending(S) ==
    IF S = {} THEN <<>>
    ELSE LET m == CHOOSE x \in S : \A y \in S : x <= y
         IN  <<m>> \o Ascending(S \ {m})

\* Option<Membership> current; foreach (membership) current = min(current, membership);
RECURSIVE Fold(_, _)
Fold(current, order) ==
    IF order = <<>> THEN current
    ELSE Fold(MinOption(current, Head(order)), Tail(order))

\* The election seeded with the incumbent: Option<Membership> current = leader;
ElectFromIncumbent(memberships) == Fold(leader, Ascending(memberships))

Elect(memberships) == Fold(None, Ascending(memberships))

\* The watch future is released once its callback has run: what stays of
\* it is how it settled.
Released(m) == [expected |-> {}, st |-> "handled", result |-> {}, why |-> m.why]

\* The future group->watch(expected) returns.
NewWatch(expected) ==
    [expected |-> expected, st |-> "pending", result |-> {}, why |-> ""]

\* group->watch(expected).onAny(defer(self(), &Self::watched, lambda::_1))
watch(expected) ==
    watches' = Append([w \in DOMAIN watches |->
                         IF watches[w].st \in {"ready", "failed"}
                         THEN Released(watches[w]) ELSE watches[w]],
                      NewWatch(expected))

\* LeaderDetectorProcess::initialize
initialize ==
    /\ UNCHANGED group
    /\ proc = "spawned"
    /\ proc' = "running"
    /\ watch({})
    /\ last' = Step("initialize", 0)
    /\ UNCHANGED <<leader, promises, req, mailbox, invoked, run>>

\* detect() answering with the caller's own belief: return previous;
detectBodyReturnsPrevious(r) ==
    IF leader # req[r].prev
    THEN /\ req' = [req EXCEPT ![r] = [@ EXCEPT !.st = "ready",
                                                !.val = req[r].prev,
                                                !.imm = TRUE]]
         /\ promises' = promises
    ELSE /\ req' = [req EXCEPT ![r] = [@ EXCEPT !.st = "pending"]]
         /\ promises' = promises \cup {r}

\* detect() creating and inserting its promise before the comparison.
detectBodyAlwaysQueues(r) ==
    IF leader # req[r].prev
    THEN /\ req' = [req EXCEPT ![r] = [@ EXCEPT !.st = "ready",
                                                !.val = leader,
                                                !.imm = TRUE]]
         /\ promises' = promises \cup {r}
    ELSE /\ req' = [req EXCEPT ![r] = [@ EXCEPT !.st = "pending"]]
         /\ promises' = promises \cup {r}

\* The body of LeaderDetectorProcess::detect for request r.
detectBody(r) ==
    IF leader # req[r].prev
    THEN /\ req' = [req EXCEPT ![r] = [@ EXCEPT !.st = "ready",
                                                !.val = leader,
                                                !.imm = TRUE]]
         /\ promises' = promises
    ELSE /\ req' = [req EXCEPT ![r] = [@ EXCEPT !.st = "pending"]]
         /\ promises' = promises \cup {r}

\* The actor dequeues a dispatched detect and runs it.
detect(r) ==
    /\ UNCHANGED group
    /\ proc = "running"
    /\ ~ActorBusy
    /\ mailbox # <<>>
    /\ Head(mailbox) = Event("detect", r)
    /\ mailbox' = Tail(mailbox)
    /\ detectBody(r)
    /\ last' = Step("detect", r)
    /\ UNCHANGED <<proc, leader, watches, invoked, run>>

\* promise->fail("Failed to watch memberships"): a message of the detector's
\* own in place of memberships.failure().
failPromisesOwnMessage(why) ==
    /\ req' = [r \in Reqs |->
                 IF r \in promises
                 THEN PromiseFail(req[r], "Failed to watch memberships")
                 ELSE req[r]]
    /\ promises' = {}

\* The failure branch without promises.clear().
failPromisesNoClear(why) ==
    /\ req' = [r \in Reqs |->
                 IF r \in promises THEN PromiseFail(req[r], why) ELSE req[r]]
    /\ promises' = promises

\* watched(), failure branch: leader = None(); fail and clear the promises.
failPromises(why) ==
    /\ req' = [r \in Reqs |->
                 IF r \in promises THEN PromiseFail(req[r], why) ELSE req[r]]
    /\ promises' = {}

\* The promises set and cleared whether or not the leader changed.
fulfilPromisesAlways(current) ==
    /\ req' = [r \in Reqs |->
                 IF r \in promises THEN PromiseSet(req[r], current) ELSE req[r]]
    /\ promises' = {}

\* promise->set(leader): the promises get the incumbent, not the elected.
fulfilPromisesWithIncumbent(current) ==
    IF current # leader
    THEN /\ req' = [r \in Reqs |->
                      IF r \in promises THEN PromiseSet(req[r], leader)
                      ELSE req[r]]
         /\ promises' = {}
    ELSE UNCHANGED <<req, promises>>

\* promises.clear() moved out of the if: an unchanged leader drops the promises.
fulfilPromisesClearsAlways(current) ==
    /\ req' = [r \in Reqs |->
                 IF r \in promises /\ current # leader
                 THEN PromiseSet(req[r], current) ELSE req[r]]
    /\ promises' = {}

\* The leader changes and the promises are kept for a later change.
fulfilPromisesNever(current) ==
    UNCHANGED <<req, promises>>

\* A break in the loop: one promise is set, all are cleared.
fulfilPromisesOnlyOne(current) ==
    IF current # leader
    THEN /\ req' = [r \in Reqs |->
                      IF r \in promises /\ \A q \in promises : r <= q
                      THEN PromiseSet(req[r], current) ELSE req[r]]
         /\ promises' = {}
    ELSE UNCHANGED <<req, promises>>

\* watched(), if (current != leader): set and clear the promises.
fulfilPromises(current) ==
    IF current # leader
    THEN /\ req' = [r \in Reqs |->
                      IF r \in promises THEN PromiseSet(req[r], current)
                      ELSE req[r]]
         /\ promises' = {}
    ELSE UNCHANGED <<req, promises>>

\* The failure branch without leader = None().
watchedFailedKeepsLeader(w) ==
    /\ leader' = leader
    /\ failPromises(watches[w].why)
    /\ watches' = [watches EXCEPT ![w] = Released(@)]

\* The failure branch re-arming the watch before it returns.
watchedFailedRearms(w) ==
    /\ leader' = None
    /\ failPromises(watches[w].why)
    /\ watch({})

\* watched(), failure branch as a whole.
watchedFailed(w) ==
    /\ leader' = None
    /\ failPromises(watches[w].why)
    /\ watches' = [watches EXCEPT ![w] = Released(@)]

\* The success branch returning without watch(memberships.get()).
watchedElectedNoRearm(w) ==
    LET current == Elect(watches[w].result)
    IN  /\ fulfilPromises(current)
        /\ leader' = current
        /\ watches' = [watches EXCEPT ![w] = Released(@)]

\* The success branch with watch(memberships.get()) inside the if: an
\* unchanged leader leaves no watch.
watchedElectedRearmsOnChange(w) ==
    LET current == Elect(watches[w].result)
    IN  /\ fulfilPromises(current)
        /\ leader' = current
        /\ IF current # leader
           THEN watch(watches[w].result)
           ELSE watches' = [watches EXCEPT ![w] = Released(@)]

\* The success branch taking the loss of the incumbent for a change of its
\* own: if (leader.isSome() && count(leader) == 0) leader = None(); else
\* leader = current.
watchedElectedLostIncumbent(w) ==
    LET current == Elect(watches[w].result)
    IN  /\ fulfilPromises(current)
        /\ leader' = IF leader # None /\ leader \notin watches[w].result
                      THEN None ELSE current
        /\ watch(watches[w].result)

\* watched(), success branch as a whole.
watchedElected(w) ==
    LET current == Elect(watches[w].result)
    IN  /\ fulfilPromises(current)
        /\ leader' = current
        /\ watch(watches[w].result)

\* The actor dequeues a deferred watched and runs it to completion.
\* CHECK(!memberships.isDiscarded()) aborts the program.
watched(w) ==
    /\ UNCHANGED group
    /\ proc = "running"
    /\ ~ActorBusy
    /\ mailbox # <<>>
    /\ Head(mailbox) = Event("watched", w)
    /\ mailbox' = Tail(mailbox)
    /\ invoked' = [invoked EXCEPT ![w] = @ + 1]
    /\ last' = Step("watched", w)
    /\ IF watches[w].st = "discarded"
       THEN /\ proc' = "aborted"
            /\ UNCHANGED <<leader, promises, req, watches>>
       ELSE /\ proc' = proc
            /\ IF watches[w].st = "failed"
               THEN watchedFailed(w)
               ELSE watchedElected(w)
    /\ UNCHANGED run

\* ---------------------------------------- watched(), statement by statement

\* The actor dequeues a deferred watched and enters it.
watchedEnter(w) ==
    /\ UNCHANGED group
    /\ proc = "running"
    /\ ~ActorBusy
    /\ run.pc = "idle"
    /\ mailbox # <<>>
    /\ Head(mailbox) = Event("watched", w)
    /\ mailbox' = Tail(mailbox)
    /\ run' = [pc |-> "start", ctx |-> "actor", w |-> w, current |-> None]
    /\ UNCHANGED <<proc, leader, promises, req, watches, invoked, last>>

\* CHECK(!isDiscarded()); if (isFailed()) { leader = None(); ... or the election.
watchedBegin ==
    /\ UNCHANGED group
    /\ run.pc = "start"
    /\ invoked' = [invoked EXCEPT ![run.w] = @ + 1]
    /\ last' = Step("watched", run.w)
    /\ IF watches[run.w].st = "discarded"
       THEN /\ proc' = "aborted"
            /\ run' = NoRun
            /\ UNCHANGED leader
       ELSE /\ proc' = proc
            /\ IF watches[run.w].st = "failed"
               THEN /\ leader' = None
                    /\ run' = [run EXCEPT !.pc = "failing"]
               ELSE /\ run' = [run EXCEPT !.pc = "elected",
                                          !.current = Elect(watches[run.w].result)]
                    /\ UNCHANGED leader
    /\ UNCHANGED <<promises, req, mailbox, watches>>

\* foreach (promise) { promise->fail(...); delete promise; } promises.clear(); return;
watchedFail ==
    /\ UNCHANGED group
    /\ run.pc = "failing"
    /\ failPromises(watches[run.w].why)
    /\ watches' = [watches EXCEPT ![run.w] = Released(@)]
    /\ run' = NoRun
    /\ UNCHANGED <<proc, leader, mailbox, invoked, last>>

\* if (current != leader) { foreach (promise) promise->set(current); promises.clear(); }
watchedFulfil ==
    /\ UNCHANGED group
    /\ run.pc = "elected"
    /\ fulfilPromises(run.current)
    /\ run' = [run EXCEPT !.pc = "fulfilled"]
    /\ UNCHANGED <<proc, leader, mailbox, watches, invoked, last>>

\* leader = current;
watchedAssign ==
    /\ UNCHANGED group
    /\ run.pc = "fulfilled"
    /\ leader' = run.current
    /\ run' = [run EXCEPT !.pc = "assigned"]
    /\ UNCHANGED <<proc, promises, req, mailbox, watches, invoked, last>>

\* watch(memberships.get());
watchedRearm ==
    /\ UNCHANGED group
    /\ run.pc = "assigned"
    /\ watch(watches[run.w].result)
    /\ run' = NoRun
    /\ UNCHANGED <<proc, leader, promises, req, mailbox, invoked, last>>

\* The destructor without promise->future().discard().
destructorDropsSilently ==
    /\ req' = req
    /\ promises' = {}
    /\ UNCHANGED watches

\* The destructor discarding the watch it waits on as well.
destructorDiscardsWatch ==
    /\ req' = [r \in Reqs |->
                 IF r \in promises THEN FutureDiscard(req[r]) ELSE req[r]]
    /\ promises' = {}
    /\ watches' = [w \in DOMAIN watches |-> FutureDiscard(watches[w])]

\* LeaderDetectorProcess::~LeaderDetectorProcess
destructor ==
    /\ req' = [r \in Reqs |->
                 IF r \in promises THEN FutureDiscard(req[r]) ELSE req[r]]
    /\ promises' = {}
    /\ UNCHANGED watches

\* -------------------------------------------------------- the facade

NextReq == CHOOSE r \in Reqs : req[r].st = "unused" /\ \A q \in Reqs : q < r => req[q].st # "unused"

\* LeaderDetector::detect: dispatch(process, &LeaderDetectorProcess::detect, membership)
LeaderDetector_detect(previous) ==
    /\ UNCHANGED group
    /\ proc \in {"spawned", "running"}
    /\ \E r \in Reqs : req[r].st = "unused"
    /\ req' = [req EXCEPT ![NextReq] = [NoRequest EXCEPT !.st = "dispatched",
                                                         !.prev = previous]]
    /\ mailbox' = Append(mailbox, Event("detect", NextReq))
    /\ last' = last
    /\ UNCHANGED <<proc, leader, promises, watches, invoked, run>>

\* LeaderDetector::~LeaderDetector: terminate(process); process::wait(process);
\* the terminate event is injected ahead of the mailbox, whose events are dropped.
terminate ==
    /\ UNCHANGED group
    /\ proc = "running"
    /\ ~ActorBusy
    /\ proc' = "terminated"
    /\ mailbox' = <<>>
    /\ req' = [r \in Reqs |-> DropDispatch(req[r])]
    /\ last' = Step("terminate", 0)
    /\ UNCHANGED <<leader, promises, watches, invoked, run>>

\* LeaderDetector::~LeaderDetector: delete process;
delete ==
    /\ UNCHANGED group
    /\ proc = "terminated"
    /\ proc' = "deleted"
    /\ destructor
    /\ last' = Step("delete", 0)
    /\ UNCHANGED <<leader, mailbox, invoked, run>>

\* --------------------------------------------------------- the Group

Outstanding == Len(watches) > 0 /\ watches[Len(watches)].st = "pending"

\* The callback registered twice (onReady and onAny): watched runs twice.
onAnyTwice(w) ==
    IF proc \in {"terminated", "deleted", "aborted"}
    THEN UNCHANGED <<mailbox, run>>
    ELSE /\ mailbox' = Append(Append(mailbox, Event("watched", w)),
                              Event("watched", w))
         /\ UNCHANGED run

\* What the onAny callback registered by watch() does when watch w settles.
onAny(w) ==
    IF proc \in {"terminated", "deleted", "aborted"}
    THEN UNCHANGED <<mailbox, run>>
    ELSE IF Deferred
         THEN mailbox' = Append(mailbox, Event("watched", w)) /\ UNCHANGED run
         ELSE run' = [pc |-> "start", ctx |-> "group", w |-> w, current |-> None]
              /\ UNCHANGED mailbox

\* Group::watch(expected) completes once the live set differs from expected.
\* with the live set, here any set S.
GroupNotify(S) ==
    /\ UNCHANGED group
    /\ Outstanding
    /\ Len(watches) < MaxWatch
    /\ S # watches[Len(watches)].expected
    /\ watches' = [watches EXCEPT ![Len(watches)] =
                     [@ EXCEPT !.st = "ready", !.result = S]]
    /\ onAny(Len(watches))
    /\ last' = last
    /\ UNCHANGED <<proc, leader, promises, req, invoked>>

\* Group::watch(expected) fails.
GroupFail(why) ==
    /\ UNCHANGED group
    /\ Outstanding
    /\ watches' = [watches EXCEPT ![Len(watches)] =
                     [@ EXCEPT !.st = "failed", !.why = why]]
    /\ onAny(Len(watches))
    /\ last' = last
    /\ UNCHANGED <<proc, leader, promises, req, invoked>>

\* ------------------------------------------------------ specification

Init ==
    /\ proc = "spawned"
    /\ leader = None
    /\ promises = {}
    /\ req = [r \in Reqs |-> NoRequest]
    /\ mailbox = <<>>
    /\ watches = <<>>
    /\ invoked = [w \in 1 .. MaxWatch |-> 0]
    /\ run = NoRun
    /\ last = Step("init", 0)
    /\ group = [live |-> {}, changes |-> 0]

Next ==
    \/ initialize
    \/ \E p \in OptionIds : LeaderDetector_detect(p)
    \/ \E r \in Reqs : detect(r)
    \/ \E w \in 1 .. MaxWatch : watched(w)
    \/ \E S \in SUBSET Ids : GroupNotify(S)
    \/ \E why \in Reasons : GroupFail(why)
    \/ terminate
    \/ delete

Spec == Init /\ [][Next]_vars

NextFine ==
    \/ initialize
    \/ \E p \in OptionIds : LeaderDetector_detect(p)
    \/ \E r \in Reqs : detect(r)
    \/ \E w \in 1 .. MaxWatch : watchedEnter(w)
    \/ watchedBegin
    \/ watchedFail
    \/ watchedFulfil
    \/ watchedAssign
    \/ watchedRearm
    \/ \E S \in SUBSET Ids : GroupNotify(S)
    \/ \E why \in Reasons : GroupFail(why)
    \/ terminate
    \/ delete

SpecFine == Init /\ [][NextFine]_vars

\* ------------------------------------- specification with a live Group

\* A member joins or leaves the Group. Each completed watch takes a change
\* of the live set, so MaxWatch - 1 changes feed every watch of a run.
GroupChange(S) ==
    /\ group.changes < MaxWatch - 1
    /\ S # group.live
    /\ group' = [live |-> S, changes |-> group.changes + 1]
    /\ UNCHANGED <<proc, leader, promises, req, mailbox, watches, invoked, run, last>>

\* Group::watch(expected) completes with the live set once it differs.
GroupNotifyLive == GroupNotify(group.live)

NextLive ==
    \/ initialize
    \/ \E p \in OptionIds : LeaderDetector_detect(p)
    \/ \E r \in Reqs : detect(r)
    \/ \E w \in 1 .. MaxWatch : watched(w)
    \/ \E S \in SUBSET Ids : GroupChange(S)
    \/ GroupNotifyLive

\* The actor runs what is in its mailbox, and the Group settles a watch
\* whose baseline differs from the live set; no watch fails, no teardown.
SpecLive ==
    /\ Init
    /\ [][NextLive]_vars
    /\ WF_vars(initialize)
    /\ WF_vars(\E r \in Reqs : detect(r))
    /\ WF_vars(\E w \in 1 .. MaxWatch : watched(w))
    /\ WF_vars(GroupNotifyLive)

\* ------------------------------------------------------------ claims

\* The member with the smallest id, none for the empty snapshot.
Oldest(S) == IF S = {} THEN None ELSE CHOOSE m \in S : \A n \in S : m <= n

\* This step is the actor running detect for request r.
DetectRuns(r) ==
    /\ proc = "running" /\ proc' = "running"
    /\ mailbox # <<>> /\ Head(mailbox) = Event("detect", r)
    /\ mailbox' = Tail(mailbox)

\* This step is the actor running watched for watch w.
WatchedRuns(w) ==
    /\ proc = "running" /\ proc' = "running"
    /\ mailbox # <<>> /\ Head(mailbox) = Event("watched", w)
    /\ mailbox' = Tail(mailbox)

\* watched(w) has run and its watch had failed.
FailureHandled(w) ==
    w \in DOMAIN watches /\ watches[w].st = "handled" /\ watches[w].why # ""

\* C1: a detect(previous) executed while previous differs from the leader
\* returns an already completed result whose value is the leader, never
\* previous.
ImmediateReturn ==
    [][\A r \in Reqs :
         (DetectRuns(r) /\ req[r].prev # leader) =>
            /\ req'[r].st = "ready"
            /\ req'[r].imm
            /\ req'[r].val = leader
            /\ req'[r].val # req[r].prev]_vars

\* C1 witness: detect has just answered a caller that believed in one
\* member with another member, at once.
ImmediateReturnWitness ==
    \E r \in Reqs :
        /\ last = Step("detect", r)
        /\ req[r].st = "ready" /\ req[r].imm
        /\ req[r].prev \in Ids /\ req[r].val \in Ids
        /\ req[r].val # req[r].prev

\* C2: a detect(previous) executed while previous equals the leader returns
\* a pending result; it stays pending through every successful snapshot
\* electing previous and is completed, with the elected leader, exactly at
\* the first successful snapshot electing someone else.
QueueAndFulfil ==
    [][\A r \in Reqs :
         /\ (DetectRuns(r) /\ req[r].prev = leader) =>
               (req'[r].st = "pending" /\ ~req'[r].imm /\ r \in promises')
         /\ req[r].st = "pending" =>
               /\ req'[r].st = "ready" <=>
                     \E w \in DOMAIN watches :
                         /\ WatchedRuns(w) /\ watches[w].st = "ready"
                         /\ Oldest(watches[w].result) # req[r].prev
               /\ req'[r].st = "ready" =>
                     \E w \in DOMAIN watches :
                         /\ WatchedRuns(w)
                         /\ req'[r].val = Oldest(watches[w].result)
               /\ \A w \in DOMAIN watches :
                     ( /\ WatchedRuns(w) /\ watches[w].st = "ready"
                       /\ Oldest(watches[w].result) = req[r].prev ) =>
                         req'[r] = req[r]]_vars

\* C2 witness: a request queued against member 0, elected by the first
\* snapshot, has just been fulfilled with member 1 by the second one.
QueueAndFulfilWitness ==
    \E r \in Reqs :
        /\ req[r].st = "ready" /\ ~req[r].imm
        /\ req[r].prev = 0 /\ req[r].val = 1
        /\ last = Step("watched", 2) /\ leader = 1

\* C3: a result of detect(previous) that completes with a leader value
\* completes with a value different from previous.
NeverPrevious ==
    \A r \in Reqs : req[r].st = "ready" => req[r].val # req[r].prev

\* C3 witness: one request answered at once and one fulfilled from the
\* queue, both completed with a value.
NeverPreviousWitness ==
    \E r, q \in Reqs :
        /\ req[r].st = "ready" /\ req[r].imm
        /\ req[q].st = "ready" /\ ~req[q].imm
\* Every order in which the members of S can be visited.
Orders(S) ==
    {o \in [1 .. Cardinality(S) -> S] : \A i, j \in DOMAIN o : o[i] = o[j] => i = j}

\* C4: the candidate elected from a successfully delivered snapshot is its
\* member with the smallest id, none if it is empty, whatever the incumbent
\* and whatever the order the members are visited in.
ElectionRule ==
    [][\A w \in DOMAIN watches :
         (WatchedRuns(w) /\ watches[w].st = "ready") =>
            LET S == watches[w].result
            IN  /\ S = {} => leader' = None
                /\ S # {} => (leader' \in S /\ \A m \in S : leader' <= m)
                /\ \A o \in Orders(S) : Fold(None, o) = leader']_vars

\* C4 witness: the second snapshot has made member 1 the leader, so the
\* incumbent was member 0, older than every member of that snapshot.
ElectionRuleWitness ==
    /\ last = Step("watched", 2)
    /\ leader = 1
    /\ Outstanding /\ watches[Len(watches)].expected = {1}

\* C5: a successful snapshot electing the incumbent completes no request
\* and leaves the pending set as it was.
NoSpuriousFulfilment ==
    [][\A w \in DOMAIN watches :
         ( /\ WatchedRuns(w) /\ watches[w].st = "ready"
           /\ Oldest(watches[w].result) = leader ) =>
            /\ promises' = promises
            /\ req' = req]_vars

\* C5 witness: watched has just run on a snapshot and two requests are
\* still in the pending set.
NoSpuriousFulfilmentWitness ==
    /\ last.op = "watched"
    /\ ~FailureHandled(last.id)
    /\ Cardinality(promises) >= 2
    /\ \A r \in promises : req[r].st = "pending" /\ req[r].prev = leader

\* C6: a failed watch result fails every pending request with the reason
\* of the watch, empties the pending set and makes the leader none.
FailureFanOut ==
    [][\A w \in DOMAIN watches :
         (WatchedRuns(w) /\ watches[w].st = "failed") =>
            /\ \A r \in Reqs :
                  (r \in promises \/ req[r].st = "pending") =>
                     (req'[r].st = "failed" /\ req'[r].why = watches[w].why)
            /\ promises' = {}
            /\ leader' = None]_vars

\* C6 witness: watched has just handled a failure while a member was the
\* leader and two requests were pending; both failed with its reason.
FailureFanOutWitness ==
    /\ last.op = "watched"
    /\ FailureHandled(last.id)
    /\ leader = None /\ promises = {}
    /\ \A r \in Reqs :
          /\ req[r].st = "failed" /\ req[r].why = watches[last.id].why
          /\ req[r].prev \in Ids

\* C7: teardown leaves every request of the pending set discarded: the
\* terminate step touches none of them, the delete step discards them all,
\* a discarded request stays discarded, and no request is pending once the
\* detector is deleted.
TeardownCancels ==
    /\ [][ /\ (proc = "running" /\ proc' = "terminated") =>
                (promises' = promises /\
                 \A r \in Reqs : req[r].st = "pending" => req'[r] = req[r])
           /\ (proc = "terminated" /\ proc' = "deleted") =>
                \A r \in Reqs :
                    (r \in promises \/ req[r].st = "pending") =>
                        req'[r].st = "discarded"
           /\ \A r \in Reqs :
                req[r].st = "discarded" => req'[r].st = "discarded" ]_vars
    /\ [](proc = "deleted" =>
            (promises = {} /\ \A r \in Reqs : req[r].st # "pending"))

\* C7 witness: the detector was deleted while idle after a failure with two
\* requests pending, and both are discarded.
TeardownCancelsWitness ==
    /\ proc = "deleted"
    /\ \E w \in DOMAIN watches : FailureHandled(w)
    /\ \A r \in Reqs : req[r].st = "discarded"
Idle ==
    /\ proc = "running"
    /\ \E w \in DOMAIN watches : FailureHandled(w)

\* C9: once watched has handled a failure, and for as long as the detector
\* exists, no watch is issued or outstanding, the leader stays none, a
\* detect(previous) with previous present is answered at once with none, a
\* detect(none) is queued, and a queued request is completed neither with a
\* value nor with a failure.
IdleAfterFailure ==
    /\ [][Idle =>
            /\ proc' = "running" => Idle'
            /\ Len(watches') = Len(watches)
            /\ leader' = None
            /\ \A r \in Reqs :
                  /\ (DetectRuns(r) /\ req[r].prev # None) =>
                        (req'[r].st = "ready" /\ req'[r].imm /\ req'[r].val = None)
                  /\ (DetectRuns(r) /\ req[r].prev = None) =>
                        (req'[r].st = "pending" /\ r \in promises')
                  /\ req[r].st = "pending" => req'[r] = req[r] ]_vars
    /\ [](Idle =>
            /\ leader = None
            /\ ~Outstanding
            /\ \A i \in DOMAIN mailbox : mailbox[i].kind = "detect")

\* C9 witness: after a member had led and the second watch failed, a
\* detect(none) was queued and is pending, and a detect(previous) with a
\* member has then been answered at once with none.
IdleAfterFailureWitness ==
    /\ Idle
    /\ invoked[1] = 1 /\ invoked[2] = 1 /\ FailureHandled(2)
    /\ req[1].st = "pending" /\ req[1].prev = None /\ 1 \in promises
    /\ last = Step("detect", 2)
    /\ req[2].st = "ready" /\ req[2].imm
    /\ req[2].prev \in Ids /\ req[2].val = None

\* C10: no detect runs while a watched invocation is between its first and
\* its last statement (in particular not between the fulfilment of the
\* promises and leader = current), and so, between handlers, every queued
\* request was queued against the current leader.
AtomicWrtDetect ==
    /\ [][\A r \in Reqs : DetectRuns(r) => (run.pc = "idle" /\ run'.pc = "idle")]_vars
    /\ [](run.pc = "idle" => \A r \in promises : req[r].prev = leader)
    /\ [](run.pc # "idle" => run.ctx = "actor")

\* C10 witness: watched has fulfilled the promises with a new leader and
\* has not yet assigned it, while a dispatched detect heads the mailbox.
AtomicWrtDetectWitness ==
    /\ run.pc = "fulfilled"
    /\ run.current # leader
    /\ \E r \in Reqs : req[r].st = "ready" /\ ~req[r].imm /\ req[r].val = run.current
    /\ mailbox # <<>> /\ Head(mailbox).kind = "detect"
\* C11: detect itself never fails a result: what it returns is a value
\* completed at once or a pending result; a result becomes failed only in
\* the watched step that handles a failed watch, from pending, and with
\* that watch's reason.
NoErrorPath ==
    /\ [][\A r \in Reqs :
            /\ DetectRuns(r) => req'[r].st \in {"ready", "pending"}
            /\ (req'[r].st = "failed" /\ req[r].st # "failed") =>
                  /\ req[r].st = "pending"
                  /\ \E w \in DOMAIN watches :
                        /\ WatchedRuns(w) /\ watches[w].st = "failed"
                        /\ req'[r].why = watches[w].why ]_vars
    /\ [](\A r \in Reqs :
            /\ req[r].imm => (req[r].st = "ready" /\ req[r].val \in OptionIds)
            /\ req[r].st = "failed" =>
                  (~req[r].imm /\ req[r].why \in Reasons /\
                   \E w \in DOMAIN watches :
                       FailureHandled(w) /\ watches[w].why = req[r].why))

\* C11 witness: one request was answered at once with a value, and one,
\* queued, has just been failed with the reason "timeout" of the watch.
NoErrorPathWitness ==
    /\ last.op = "watched" /\ FailureHandled(last.id)
    /\ watches[last.id].why = "timeout"
    /\ \E r, q \in Reqs :
          /\ req[r].st = "ready" /\ req[r].imm
          /\ req[q].st = "failed" /\ req[q].why = "timeout"
\* C12: with every watch settling successfully, no teardown and a live set
\* that stops changing, the leader eventually is, and stays, the member of
\* the live set with the smallest id (none if it is empty), and from then
\* on no request is pending against another value.
EventuallyConsistent ==
    <>[]( /\ leader = Oldest(group.live)
          /\ \A r \in Reqs : req[r].st = "pending" => req[r].prev = Oldest(group.live) )

\* C12 witness: the live set changed as often as it can and was left with
\* member 1 alone, two snapshots were handled, the leader is member 1 and a
\* request queued against member 0 was fulfilled with it.
EventuallyConsistentWitness ==
    /\ group.changes = MaxWatch - 1 /\ group.live = {1}
    /\ last = Step("watched", 2)
    /\ leader = 1
    /\ Outstanding /\ watches[Len(watches)].expected = group.live
    /\ \E r \in Reqs : req[r].st = "ready" /\ ~req[r].imm /\ req[r].prev = 0
RearmProtocol ==
    [][ /\ Len(watches') # Len(watches) =>
              /\ Len(watches') = Len(watches) + 1
              /\ \/ /\ proc = "spawned" /\ proc' = "running"
                    /\ watches = <<>>
                    /\ watches'[1] = NewWatch({})
                 \/ \E w \in DOMAIN watches :
                       /\ WatchedRuns(w) /\ watches[w].st = "ready"
                       /\ watches'[Len(watches')] = NewWatch(watches[w].result)
        /\ (proc = "spawned" /\ proc' = "running") => Len(watches') = 1
        /\ \A w \in DOMAIN watches :
              /\ (WatchedRuns(w) /\ watches[w].st = "ready") =>
                    Len(watches') = Len(watches) + 1
              /\ (WatchedRuns(w) /\ watches[w].st = "failed") =>
                    Len(watches') = Len(watches) ]_vars

\* C14 witness: the second snapshot has left member 0 the leader (a request
\* queued against it is still pending) and the third watch is armed with
\* that snapshot as baseline.
RearmProtocolWitness ==
    /\ last = Step("watched", 2)
    /\ leader = 0 /\ promises # {}
    /\ Len(watches) = 3
    /\ watches[3] = NewWatch({0, 1})

\* C15: a watched step on a successful snapshot makes the elected member
\* the leader (a member whenever the snapshot is not empty, whether or not
\* the incumbent is in it), and every watch not yet handled has a baseline
\* that elects the current leader.
LeaderIsElected ==
    /\ [][\A w \in DOMAIN watches :
            (WatchedRuns(w) /\ watches[w].st = "ready") =>
               /\ leader' = Oldest(watches[w].result)
               /\ watches[w].result # {} => leader' \in watches[w].result
               /\ watches[w].result = {} <=> leader' = None ]_vars
    /\ [](\A w \in DOMAIN watches :
            watches[w].st \in {"pending", "ready", "failed"} =>
                leader = Oldest(watches[w].expected))

\* C15 witness: member 0 led and is not in the second snapshot; member 1
\* is the leader, and the request queued against 0 got 1.
LeaderIsElectedWitness ==
    /\ last = Step("watched", 2)
    /\ leader = 1 /\ promises = {}
    /\ watches[Len(watches)].expected = {1}
    /\ \E r \in Reqs : req[r].st = "ready" /\ ~req[r].imm
                         /\ req[r].prev = 0 /\ req[r].val = 1

\* C16: every request in the pending set was queued with previous equal to
\* the current leader.
PendingAgainstLeader ==
    \A r \in promises : req[r].prev = leader

\* C16 witness: two requests are pending against member 0 after a snapshot
\* that kept it the leader.
PendingAgainstLeaderWitness ==
    /\ Cardinality(promises) >= 2
    /\ leader = 0
    /\ last.op = "watched"
\* The request is settled: it holds a value, a failure or is canceled.
Settled(q) == q.st \in {"ready", "failed", "discarded"}

\* C17: the pending set holds unsettled requests only; a request leaves it
\* in the step that settles it, and a settled request is never changed
\* again.
WriteOnce ==
    /\ [][\A r \in Reqs :
            /\ Settled(req[r]) => req'[r] = req[r]
            /\ (req[r].st = "pending" /\ req'[r].st # "pending") =>
                  (Settled(req'[r]) /\ r \in promises /\ r \notin promises')
            /\ (r \in promises /\ r \notin promises') => Settled(req'[r]) ]_vars
    /\ [](\A r \in promises : req[r].st = "pending")

\* C17 witness: one request was failed by a watch failure, a later one was
\* canceled by the teardown, and the pending set is empty.
WriteOnceWitness ==
    /\ proc = "deleted" /\ promises = {}
    /\ req[1].st = "failed"
    /\ req[2].st = "discarded"

\* C18: a successful snapshot electing someone other than the incumbent
\* completes every pending request in that step with the elected leader
\* and leaves the pending set empty.
BulkFulfilment ==
    [][\A w \in DOMAIN watches :
         ( /\ WatchedRuns(w) /\ watches[w].st = "ready"
           /\ Oldest(watches[w].result) # leader ) =>
            /\ \A r \in Reqs :
                  (r \in promises \/ req[r].st = "pending") =>
                     /\ req'[r].st = "ready"
                     /\ req'[r].val = Oldest(watches[w].result)
            /\ promises' = {}]_vars

\* C18 witness: watched has just fulfilled all the queued requests, more
\* than one, with the leader it elected.
BulkFulfilmentWitness ==
    /\ last.op = "watched"
    /\ promises = {}
    /\ Cardinality({r \in Reqs : req[r].st = "ready" /\ ~req[r].imm
                                  /\ req[r].val = leader}) >= 2

\* C19: a detect step changes neither the leader nor the watches nor any
\* other request; answering at once it leaves the pending set as it was,
\* queueing it adds its own new, unsettled request and nothing else.
DetectFrame ==
    [][\A r \in Reqs :
         DetectRuns(r) =>
            /\ leader' = leader
            /\ watches' = watches
            /\ \A q \in Reqs \ {r} : req'[q] = req[q]
            /\ req[r].prev # leader => promises' = promises
            /\ req[r].prev = leader =>
                  /\ r \notin promises
                  /\ promises' = promises \cup {r}
                  /\ req'[r].st = "pending"]_vars

\* C19 witness: detect has just answered the second request at once while
\* the first one is queued, and the pending set holds the first one only.
DetectFrameWitness ==
    /\ last = Step("detect", 2)
    /\ req[2].st = "ready" /\ req[2].imm
    /\ req[1].st = "pending"
    /\ promises = {1}

\* The watches that have not settled.
Unsettled == {w \in DOMAIN watches : watches[w].st = "pending"}

\* The watches whose handler has not run.
Unhandled == {w \in DOMAIN watches : watches[w].st # "handled"}

====
